---- MODULE Spec2Model ----
(***************************************************************************)
(* GNNEarly (flexynesis/models/gnn_early.py) and the evaluation loop of    *)
(* flexynesis/__main__.py as a state machine.                              *)
(*                                                                         *)
(* Numbers.  Labels and network outputs are integers.  A label tensor      *)
(* entry is a record [nan, v]: NaN is [nan |-> TRUE, v |-> 0].  A loss is  *)
(* the exact real  n/d + l*ln(2)  kept as [n, d, l] with n/d in lowest     *)
(* terms.  A log-variance parameter is k*ln(2) for an integer k, so that   *)
(* exp(-log_var) = 2^(-k) is rational and the weighted total is exact;     *)
(* since ln(2) is irrational two such values are equal iff their records   *)
(* are equal.                                                              *)
(***************************************************************************)
EXTENDS Integers, Sequences, FiniteSets, TLC

VARIABLES self, batch, op, args, result

vars == <<self, batch, op, args, result>>

-----------------------------------------------------------------------------
(* Bounds of the model *)

\* samples in a dataset handed to predict / transform / main
MaxSamples == 3
\* samples in a training or validation batch
MaxBatch == 2
\* optimizer updates explored after construction
MaxSteps == 1
\* valid classes of a categorical variable are 0 .. NumClasses-1
NumClasses == 2
\* largest target value of a numerical variable
MaxTarget == 1
\* largest value F.cross_entropy / cox_ph_loss is taken to return
MaxLoss == 1

-----------------------------------------------------------------------------
(* Python values *)

\* Python's None where a name (a string) is expected
None == "None"

\* Optional list: None, or a list
NoneList == [some |-> FALSE, val |-> <<>>]

SomeList(s) == [some |-> TRUE, val |-> s]

\* truthiness of an optional list: None and [] are both falsy
Truthy(l) == l.some /\ Len(l.val) > 0

Range(s) == {s[i] : i \in 1..Len(s)}

\* a float tensor entry
Num(v) == [nan |-> FALSE, v |-> v]

NaN == [nan |-> TRUE, v |-> 0]

\* torch.isnan
isnan(y) == y.nan

RECURSIVE SeqSum(_)
SeqSum(s) == IF s = <<>> THEN 0 ELSE Head(s) + SeqSum(Tail(s))

\* boolean-mask indexing t[mask]: the entries whose mask is TRUE, in order
RECURSIVE MaskSelect(_, _)
MaskSelect(t, mask) ==
    IF t = <<>> THEN <<>>
    ELSE (IF Head(mask) THEN <<Head(t)>> ELSE <<>>) \o MaskSelect(Tail(t), Tail(mask))

-----------------------------------------------------------------------------
(* The dataset the model is constructed from *)

VarNames == {"num", "cat", "bat", "event", "time"}

\* dataset.multiomic_dataset.variable_types
variable_types ==
    [v \in VarNames |-> IF v \in {"cat", "bat"} THEN "categorical" ELSE "numerical"]

\* the code of a missing categorical label
MissingCode == Num(-1)

\* the label values a categorical annotation can hold
CatLabels == {Num(c) : c \in 0..(NumClasses - 1)} \cup {MissingCode, NaN}

\* the label values a numerical annotation can hold
NumLabels == {Num(c) : c \in 0..MaxTarget} \cup {NaN}

LabelsOf(v) == IF variable_types[v] = "categorical" THEN CatLabels ELSE NumLabels

\* a label is present when it is neither NaN nor the missing code
Present(v, y) ==
    IF variable_types[v] = "categorical" THEN ~isnan(y) /\ y # MissingCode ELSE ~isnan(y)

-----------------------------------------------------------------------------
(* Construction: GNNEarly.__init__ *)

\* config["latent_dim"]: the width of the encoder's output
LatentDim == 2

\* np.unique(t): the distinct entries of a tensor (NaN entries count once)
np_unique(t) == Range(t)

\* output_dim of the head of var (lines 72-75)
num_class(var, ann) ==
    IF variable_types[var] = "numerical" THEN 1 ELSE Cardinality(np_unique(ann[var]))

\* the survival-event variable appended whenever it is given
TargetVariablesEventOnly(target_variables, surv_event_var, surv_time_var) ==
    IF surv_event_var # None
    THEN target_variables \o <<surv_event_var>>
    ELSE target_variables

\* self.target_variables after lines 35-41
TargetVariables(target_variables, surv_event_var, surv_time_var) ==
    IF surv_event_var # None /\ surv_time_var # None
    THEN target_variables \o <<surv_event_var>>
    ELSE target_variables

\* self.variables (line 43)
Variables(tv, batch_variables) ==
    IF Truthy(batch_variables) THEN tv \o batch_variables.val ELSE tv

\* self.log_vars (lines 53-57): one zero-initialised scalar per variable
LogVarsInit(variables) == [v \in Range(variables) |-> 0]

\* self.MLPs (lines 70-80): one head per variable, w its learned weight
MLPsInit(variables, ann, w0) ==
    [v \in Range(variables) |-> [output_dim |-> num_class(v, ann), w |-> w0]]

\* the object __init__ leaves behind; w0 is the initial value of the weights
GNNEarly(ann, target_variables, batch_variables, surv_event_var, surv_time_var, use_loss_weighting, w0) ==
    LET tv == TargetVariables(target_variables, surv_event_var, surv_time_var)
        variables == Variables(tv, batch_variables)
    IN  [ target_variables   |-> tv,
          surv_event_var     |-> surv_event_var,
          surv_time_var      |-> surv_time_var,
          batch_variables    |-> batch_variables,
          variables          |-> variables,
          ann                |-> ann,
          use_loss_weighting |-> use_loss_weighting,
          has_log_vars       |-> use_loss_weighting,
          log_vars           |-> IF use_loss_weighting THEN LogVarsInit(variables)
                                 ELSE [v \in {} |-> 0],
          encoders           |-> w0,
          MLPs               |-> MLPsInit(variables, ann, w0),
          training           |-> TRUE,
          steps              |-> 0 ]

-----------------------------------------------------------------------------
(* The networks *)

\* self.encoders(data.x, data.edge_index, data.batch): one embedding row of
\* LatentDim entries per sample of the batch, a function of the encoder's
\* parameters and of that sample's features only
Encoders(enc, xs) ==
    [i \in 1..Len(xs) |-> [d \in 1..LatentDim |-> enc * xs[i] + (d - 1)]]

\* one head applied to one embedding row: output_dim outputs
MLP(mlp, emb) ==
    [k \in 1..mlp.output_dim |-> mlp.w * k * SeqSum(emb) - (k - 1) * (k - 1)]

\* forward (lines 82-87): the outputs of every head on every row of the batch
forward(me, xs) ==
    LET embeddings == Encoders(me.encoders, xs)
    IN  [v \in DOMAIN me.MLPs |-> [i \in 1..Len(xs) |-> MLP(me.MLPs[v], embeddings[i])]]

-----------------------------------------------------------------------------
(* Datasets and the DataLoader *)

\* a dataset: its stored sample identifiers (dataset.samples) and its items in
\* storage order, item i holding the features of samples[i]; the features of
\* sample id are id itself, so that distinct samples have distinct features
Dataset(samples) == [samples |-> samples, x |-> samples]

\* every storage order of the samples 1..n, for n up to MaxSamples
Datasets ==
    {Dataset(s) : s \in {t \in UNION {[1..n -> 1..n] : n \in 1..MaxSamples} :
                            \A i, j \in DOMAIN t : i # j => t[i] # t[j]}}

\* the order a shuffling loader might visit the items in
Reversed(s) == [i \in 1..Len(s) |-> s[Len(s) + 1 - i]]

\* next(iter(DataLoader(dataset, batch_size, shuffle=True))), one outcome
FirstBatchShuffled(xs, batch_size) ==
    SubSeq(Reversed(xs), 1, IF batch_size < Len(xs) THEN batch_size ELSE Len(xs))

\* next(iter(DataLoader(dataset, batch_size, shuffle=False))): the first
\* batch_size items in storage order
FirstBatch(xs, batch_size) ==
    SubSeq(xs, 1, IF batch_size < Len(xs) THEN batch_size ELSE Len(xs))

-----------------------------------------------------------------------------
(* predict and transform *)

\* the 1-based position of the first largest entry
argmax_one_based(row) ==
    CHOOSE k \in 1..Len(row) :
        /\ \A j \in 1..Len(row) : row[j] <= row[k]
        /\ \A j \in 1..(k - 1) : row[j] < row[k]

\* np.argmax(row): the 0-based index of the first largest entry
argmax(row) ==
    (CHOOSE k \in 1..Len(row) :
        /\ \A j \in 1..Len(row) : row[j] <= row[k]
        /\ \A j \in 1..(k - 1) : row[j] < row[k]) - 1

\* lines 178-183: one prediction per variable
Predictions(me, outputs) ==
    [v \in Range(me.variables) |->
        IF variable_types[v] = "categorical"
        THEN [i \in 1..Len(outputs[v]) |-> argmax(outputs[v][i])]
        ELSE outputs[v]]

\* the mode of a module whose eval() was not called
EvalModeKept(me) == me.training

\* the mode self.eval() leaves the module in (lines 173 and 188)
EvalMode(me) == FALSE

\* predict (lines 172-184): the value returned
predict(me, dataset) ==
    Predictions(me, forward(me, FirstBatch(dataset.x, Len(dataset.x))))

\* column labels E0, E1, ...
ColumnLabels(n) == [d \in 1..n |-> "E" \o ToString(d - 1)]

\* transform reading the heads as well as the encoder
transform_heads(me, dataset) ==
    LET data == FirstBatch(dataset.x, Len(dataset.x))
        embeddings == Encoders(me.encoders + SeqSum([i \in 1..Len(me.variables) |->
                                   me.MLPs[me.variables[i]].w]), data)
    IN  [index |-> dataset.samples, columns |-> ColumnLabels(LatentDim), rows |-> embeddings]

\* transform (lines 187-200): the data frame returned
transform(me, dataset) ==
    LET data == FirstBatch(dataset.x, Len(dataset.x))
        embeddings == Encoders(me.encoders, data)
    IN  [index |-> dataset.samples, columns |-> ColumnLabels(LatentDim), rows |-> embeddings]

-----------------------------------------------------------------------------
(* The inputs of construction *)

\* the annotation columns of the training dataset: every column of two labels
\* for the categorical variables, fully labelled numerical variables
TrainAnns ==
    {[v \in VarNames |-> IF variable_types[v] = "categorical" THEN col
                         ELSE <<Num(0), Num(MaxTarget)>>] :
        col \in [1..2 -> CatLabels]}

TargetChoices == {<<"num">>, <<"cat">>, <<"num", "cat">>}

BatchChoices == {NoneList, SomeList(<<>>), SomeList(<<"bat">>)}

\* a training annotation with every class and a missing label
MixedAnn ==
    [v \in VarNames |-> IF variable_types[v] = "categorical"
                        THEN [i \in 1..NumClasses |-> Num(i - 1)] \o <<MissingCode>>
                        ELSE <<Num(0), Num(MaxTarget), NaN>>]

\* a model of the target variables alone (more = FALSE) or of the target,
\* survival and batch variables (more = TRUE)
Constructed(ann, tv, more, ulw) ==
    GNNEarly(ann, tv,
             IF more THEN SomeList(<<"bat">>) ELSE NoneList,
             IF more THEN "event" ELSE None,
             IF more THEN "time" ELSE None, ulw, 1)

\* construction from any combination of the inputs
InitAny ==
    /\ \E ann \in TrainAnns, tv \in TargetChoices, bv \in BatchChoices,
          ev \in {None, "event"}, tm \in {None, "time"}, ulw \in BOOLEAN :
            self = GNNEarly(ann, tv, bv, ev, tm, ulw, 1)
    /\ batch = <<>>
    /\ op = "__init__"
    /\ args = <<>>
    /\ result = <<>>

\* construction on one training dataset, of a model of the target variables
\* alone or of the target, survival and batch variables
Init ==
    /\ \E tv \in TargetChoices, more \in BOOLEAN, ulw \in BOOLEAN :
            self = Constructed(MixedAnn, tv, more, ulw)
    /\ batch = <<>>
    /\ op = "__init__"
    /\ args = <<>>
    /\ result = <<>>

-----------------------------------------------------------------------------
(* Training *)

\* fitting the model (Trainer.fit) puts the module in training mode
Fit ==
    /\ self' = [self EXCEPT !.training = TRUE]
    /\ op' = "fit"
    /\ args' = <<>>
    /\ result' = <<>>
    /\ UNCHANGED batch

\* one update of the optimizer of configure_optimizers (lines 134-136), run
\* by the fit loop: Adam over self.parameters(), that is the encoder, the
\* heads and the log-variances, each kind moving one unit up or down
OptimizerStep ==
    /\ self.training
    /\ self.steps < MaxSteps
    /\ \E de, dh, dl \in {0 - 1, 1} :
        self' = [self EXCEPT
                    !.encoders = @ + de,
                    !.MLPs = [v \in DOMAIN @ |-> [@[v] EXCEPT !.w = @ + dh]],
                    !.log_vars = [v \in DOMAIN @ |-> @[v] + dl],
                    !.steps = @ + 1]
    /\ op' = "optimizer_step"
    /\ args' = <<>>
    /\ result' = <<>>
    /\ UNCHANGED batch

-----------------------------------------------------------------------------
(* Inference *)

\* predict(dataset), lines 172-184
Predict ==
    \E dataset \in Datasets :
        /\ self' = [self EXCEPT !.training = EvalMode(self)]
        /\ op' = "predict"
        /\ args' = dataset
        /\ result' = predict(self, dataset)
        /\ UNCHANGED batch

\* transform(dataset), lines 187-200
Transform ==
    \E dataset \in Datasets :
        /\ self' = [self EXCEPT !.training = EvalMode(self)]
        /\ op' = "transform"
        /\ args' = dataset
        /\ result' = transform(self, dataset)
        /\ UNCHANGED batch

Next == Fit \/ OptimizerStep \/ Predict \/ Transform

Spec == Init /\ [][Next]_vars

-----------------------------------------------------------------------------
(* Construction from any inputs, followed by forward *)

\* forward(batch), lines 82-87, on the items of a dataset as one batch
Forward ==
    \E dataset \in Datasets :
        /\ op' = "forward"
        /\ args' = dataset
        /\ result' = forward(self, dataset.x)
        /\ UNCHANGED <<self, batch>>

SpecAny == InitAny /\ [][Forward]_vars

\* construction on any training annotation, followed by predict
InitHeads ==
    /\ \E ann \in TrainAnns, tv \in TargetChoices, more \in BOOLEAN, ulw \in BOOLEAN :
            self = Constructed(ann, tv, more, ulw)
    /\ batch = <<>>
    /\ op = "__init__"
    /\ args = <<>>
    /\ result = <<>>

SpecHeads == InitHeads /\ [][Predict]_vars

-----------------------------------------------------------------------------
(* Claims about inference *)

\* C5: predict returns one prediction per model variable, one row per sample
\* of the dataset (the whole dataset is one batch); a categorical prediction
\* is the index of the sample's largest logit, any other prediction is the
\* head's raw output.
C5_PredictPerVariable ==
    op = "predict" =>
        /\ DOMAIN result = Range(self.variables)
        /\ \A v \in Range(self.variables) :
            LET out == forward(self, args.x)[v]
            IN  /\ Len(result[v]) = Len(args.samples)
                /\ \A i \in 1..Len(args.samples) :
                    IF variable_types[v] = "categorical"
                    THEN /\ result[v][i] \in 0..(Len(out[i]) - 1)
                         /\ \A k \in 1..Len(out[i]) : out[i][k] <= out[i][result[v][i] + 1]
                    ELSE result[v][i] = out[i]

C5_Witness ==
    /\ op = "predict"
    /\ Len(args.samples) >= 2
    /\ "cat" \in DOMAIN result
    /\ "event" \in DOMAIN result
    /\ \E i, j \in 1..Len(args.samples) : result["cat"][i] # result["cat"][j]

\* C6: row i of every prediction and row i of the embedding table belong to
\* the i-th sample of the dataset's stored sample order, and the table's index
\* is that list of identifiers, so predict and transform on one dataset agree
\* on the order of the samples.
C6_SampleOrder ==
    /\ op = "predict" =>
        \A v \in DOMAIN result :
            /\ Len(result[v]) = Len(args.samples)
            /\ \A i \in 1..Len(args.samples) :
                 result[v][i] = Predictions(self, forward(self, <<args.samples[i]>>))[v][1]
    /\ op = "transform" =>
        /\ result.index = args.samples
        /\ Len(result.rows) = Len(args.samples)
        /\ \A i \in 1..Len(args.samples) :
             result.rows[i] = Encoders(self.encoders, <<args.samples[i]>>)[1]

C6_Witness ==
    /\ op = "transform"
    /\ Len(args.samples) >= 3
    /\ args.samples[1] > args.samples[2]
    /\ result.rows[1] # result.rows[2]

\* C7: a predict or transform call leaves the model in evaluation mode, and
\* the model goes from evaluation mode to training mode only by a fit.
C7_NoReturnToTraining ==
    /\ [](op \in {"predict", "transform"} => ~self.training)
    /\ [][(~self.training /\ self'.training) => op' = "fit"]_vars

C7_Witness ==
    /\ op = "transform"
    /\ ~self.training
    /\ self.steps >= 1

\* the model with the weight of every head replaced by w
WithHeads(me, w) == [me EXCEPT !.MLPs = [v \in DOMAIN @ |-> [@[v] EXCEPT !.w = w]]]

\* C9: predict and transform leave the encoder's parameters, every head's
\* parameters and every log-variance as they were, and the table transform
\* returns is the same whatever the heads' parameters are.
C9_ReadOnly ==
    /\ [][op' \in {"predict", "transform"} =>
            /\ self'.encoders = self.encoders
            /\ self'.MLPs = self.MLPs
            /\ self'.log_vars = self.log_vars]_vars
    /\ [](op = "transform" =>
            \A w \in (0 - MaxSteps - 1)..(MaxSteps + 1) :
                transform(WithHeads(self, w), args) = result)

C9_Witness ==
    /\ op = "transform"
    /\ self.steps >= 1
    /\ self.use_loss_weighting
    /\ Len(self.variables) >= 3
    /\ self.encoders # 0

-----------------------------------------------------------------------------
(* Claims about construction *)

\* the valid classes of a categorical variable seen in the annotation
ValidClasses(me, v) == {y \in Range(me.ann[v]) : Present(v, y)}

\* C4: the head of a numerical variable (the survival-event variable is one)
\* has one output; the head of a categorical variable has one logit per valid
\* class, the missing code not being a class, so that a categorical
\* prediction is below the number of valid classes.
C4_HeadWidth ==
    /\ \A v \in DOMAIN self.MLPs :
         self.MLPs[v].output_dim =
            IF variable_types[v] = "numerical" THEN 1
            ELSE Cardinality(ValidClasses(self, v))
    /\ op = "predict" =>
         \A v \in DOMAIN result :
            variable_types[v] = "categorical" =>
                \A i \in 1..Len(result[v]) :
                    result[v][i] < Cardinality(ValidClasses(self, v))

\* C8: a constructed model owns one head per model variable and, with
\* uncertainty weighting, one log-variance per model variable; forward
\* returns one output per model variable; the survival-event variable is a
\* model variable exactly when both survival variables are given.
C8_OnePerVariable ==
    /\ DOMAIN self.MLPs = Range(self.variables)
    /\ self.use_loss_weighting =>
         (self.has_log_vars /\ DOMAIN self.log_vars = Range(self.variables))
    /\ op = "forward" => DOMAIN result = Range(self.variables)
    /\ ("event" \in Range(self.variables)) <=>
         (self.surv_event_var # None /\ self.surv_time_var # None)

C8_Witness ==
    /\ op = "forward"
    /\ self.use_loss_weighting
    /\ Range(self.variables) = {"num", "cat", "event", "bat"}
    /\ Len(args.samples) >= 2

-----------------------------------------------------------------------------
(* Exact arithmetic for losses *)

Abs(n) == IF n < 0 THEN 0 - n ELSE n

RECURSIVE GCD(_, _)
GCD(a, b) == IF b = 0 THEN a ELSE GCD(b, a % b)

\* the rational n/d (d > 0) in lowest terms
Rat(n, d) == LET g == GCD(Abs(n), d) IN [n |-> n \div g, d |-> d \div g]

RAdd(a, b) == Rat(a.n * b.d + b.n * a.d, a.d * b.d)

RMul(a, b) == Rat(a.n * b.n, a.d * b.d)

RECURSIVE Pow2(_)
Pow2(k) == IF k = 0 THEN 1 ELSE 2 * Pow2(k - 1)

\* the real number r + l*ln(2), r and l rational
Value(r, l) == [r |-> r, l |-> l]

Scalar(n) == Value(Rat(n, 1), Rat(0, 1))

\* torch.tensor(0.0)
Zero == Scalar(0)

VAdd(a, b) == Value(RAdd(a.r, b.r), RAdd(a.l, b.l))

VScale(q, a) == Value(RMul(q, a.r), RMul(q, a.l))

\* the log-variance parameter k*ln(2)
LogVar(k) == Value(Rat(0, 1), Rat(k, 1))

\* torch.exp(-log_var) for log_var = k*ln(2): 2^(-k)
ExpNeg(k) == IF k >= 0 THEN Rat(1, Pow2(k)) ELSE Rat(Pow2(0 - k), 1)

\* Python's sum over the values of a dict
RECURSIVE DictSum(_)
DictSum(d) ==
    IF DOMAIN d = {} THEN Zero
    ELSE LET k == CHOOSE k \in DOMAIN d : TRUE
         IN  VAdd(d[k], DictSum([j \in DOMAIN d \ {k} |-> d[j]]))

-----------------------------------------------------------------------------
(* compute_loss, lines 138-158 *)

\* what a call gives back: a value, or an exception
Returned(v) == [raised |-> FALSE, value |-> v]

Raised == [raised |-> TRUE, value |-> Zero]

\* the values F.cross_entropy and cox_ph_loss are taken to return
LossValues == {Scalar(n) : n \in 0..MaxLoss}

\* torch.flatten of the rows of a tensor
RECURSIVE flatten(_)
flatten(rows) == IF rows = <<>> THEN <<>> ELSE Head(rows) \o flatten(Tail(rows))

\* F.mse_loss(input, target): the mean of the squared differences
mse_loss(input, target) ==
    Value(Rat(SeqSum([i \in 1..Len(input) |->
                        (input[i] - target[i].v) * (input[i] - target[i].v)]),
              Len(input)),
          Rat(0, 1))

\* F.cross_entropy(input, target): raises when a target is no row index of
\* the logits, returns ce otherwise
cross_entropy(input, target, ce) ==
    IF \E i \in 1..Len(target) : target[i].v \notin 0..(Len(input[i]) - 1)
    THEN Raised
    ELSE Returned(ce)

\* ~torch.isnan(y), line 141
valid_numerical(y) == [i \in 1..Len(y) |-> ~isnan(y[i])]

\* the mask of line 151 without the test of the missing code
valid_not_nan(y) == [i \in 1..Len(y) |-> ~isnan(y[i])]

\* (y != -1) & (~torch.isnan(y)), line 151
valid_categorical(y) == [i \in 1..Len(y) |-> y[i] # MissingCode /\ ~isnan(y[i])]

\* valid_indices.sum()
CountTrue(mask) == Cardinality({i \in 1..Len(mask) : mask[i]})

\* compute_loss(var, y, y_hat); ce is what F.cross_entropy returns
compute_loss(me, var, y, y_hat, ce) ==
    IF variable_types[var] = "numerical"
    THEN LET valid_indices == valid_numerical(y)
         IN  IF CountTrue(valid_indices) > 0
             THEN Returned(mse_loss(flatten(MaskSelect(y_hat, valid_indices)),
                                    MaskSelect(y, valid_indices)))
             ELSE Returned(Zero)
    ELSE LET valid_indices == valid_categorical(y)
         IN  IF CountTrue(valid_indices) > 0
             THEN cross_entropy(MaskSelect(y_hat, valid_indices),
                                MaskSelect(y, valid_indices), ce)
             ELSE Returned(Zero)

-----------------------------------------------------------------------------
(* compute_total_loss, lines 160-170 *)

\* the weighted branch taken for any number of losses
compute_total_loss_always_weighted(me, losses) ==
    IF me.use_loss_weighting
    THEN DictSum([name \in DOMAIN losses |->
                    VAdd(VScale(ExpNeg(me.log_vars[name]), losses[name]),
                         LogVar(me.log_vars[name]))])
    ELSE DictSum(losses)

\* compute_total_loss(losses)
compute_total_loss(me, losses) ==
    IF me.use_loss_weighting /\ Cardinality(DOMAIN losses) > 1
    THEN DictSum([name \in DOMAIN losses |->
                    VAdd(VScale(ExpNeg(me.log_vars[name]), losses[name]),
                         LogVar(me.log_vars[name]))])
    ELSE DictSum(losses)

-----------------------------------------------------------------------------
(* training_step and validation_step *)

\* cox_ph_loss(risk_scores, durations, events): zero when the batch has no
\* event, the value cx otherwise
cox_ph_loss(risk_scores, durations, events, cx) ==
    IF \E i \in 1..Len(events) : events[i] = Num(1) THEN cx ELSE Zero

\* the loop of lines 94-105 (and 116-127): the loss of every variable
StepLosses(me, b, ce, cx) ==
    LET outputs == forward(me, b.x)
    IN  [var \in Range(me.variables) |->
            IF var = me.surv_event_var
            THEN Returned(cox_ph_loss(outputs[var], b.y_dict[me.surv_time_var],
                                      b.y_dict[me.surv_event_var], cx))
            ELSE compute_loss(me, var, b.y_dict[var], outputs[var], ce)]

\* line 107
train_total(me, losses) == compute_total_loss(me, losses)

\* the validation total computed the way the training total is
val_total_weighted(me, losses) == compute_total_loss(me, losses)

\* line 129
val_total(me, losses) == DictSum(losses)

\* what a step returns from the per-variable results: the logged losses and
\* the total, or the exception of a loss
StepResult(me, got, total) ==
    IF \E v \in DOMAIN got : got[v].raised THEN [raised |-> TRUE]
    ELSE [raised |-> FALSE,
          losses |-> [v \in DOMAIN got |-> got[v].value],
          total  |-> total]

\* training_step, lines 90-110
training_step(me, b, ce, cx) ==
    LET got == StepLosses(me, b, ce, cx)
    IN  StepResult(me, got, train_total(me, [v \in DOMAIN got |-> got[v].value]))

\* validation_step, lines 112-132
validation_step(me, b, ce, cx) ==
    LET got == StepLosses(me, b, ce, cx)
    IN  StepResult(me, got, val_total(me, [v \in DOMAIN got |-> got[v].value]))

-----------------------------------------------------------------------------
(* Batches *)

\* the y_dict keys a model reads
LabelledVars(me) ==
    Range(me.variables) \cup
        (IF me.surv_event_var \in Range(me.variables) THEN {me.surv_time_var} ELSE {})

\* a fully labelled column of n labels
FullColumn(v, n) ==
    [i \in 1..n |->
        Num((i - 1) % (IF variable_types[v] = "categorical" THEN NumClasses
                       ELSE MaxTarget + 1))]

\* the missing label of a variable
Missing(v) == IF variable_types[v] = "categorical" THEN MissingCode ELSE NaN

\* a column whose first label is missing
PartialColumn(v, n) == [FullColumn(v, n) EXCEPT ![1] = Missing(v)]

\* a column whose first label is NaN
NaNFirstColumn(v, n) == [FullColumn(v, n) EXCEPT ![1] = NaN]

\* a column with no label
MissingColumn(v, n) == [i \in 1..n |-> Missing(v)]

\* the batches of MaxBatch samples in which the variable miss (if any) has no
\* label and the others are fully or partially labelled
BatchesOf(me) ==
    {[x |-> [i \in 1..MaxBatch |-> i],
      y_dict |-> [v \in LabelledVars(me) |->
                    IF v = miss THEN MissingColumn(v, MaxBatch)
                    ELSE IF partial THEN PartialColumn(v, MaxBatch)
                    ELSE FullColumn(v, MaxBatch)]] :
        miss \in Range(me.variables) \cup {None}, partial \in BOOLEAN}

\* construction, and a batch drawn by the loader
InitLoss ==
    /\ \E tv \in TargetChoices, more \in BOOLEAN, ulw \in BOOLEAN :
            self = Constructed(MixedAnn, tv, more, ulw)
    /\ batch \in BatchesOf(self)
    /\ op = "__init__"
    /\ args = <<>>
    /\ result = <<>>

TrainingStep ==
    \E ce, cx \in LossValues :
        /\ op' = "training_step"
        /\ args' = [ce |-> ce, cx |-> cx]
        /\ result' = training_step(self, batch, ce, cx)
        /\ UNCHANGED <<self, batch>>

ValidationStep ==
    \E ce, cx \in LossValues :
        /\ op' = "validation_step"
        /\ args' = [ce |-> ce, cx |-> cx]
        /\ result' = validation_step(self, batch, ce, cx)
        /\ UNCHANGED <<self, batch>>

NextLoss == TrainingStep \/ OptimizerStep \/ ValidationStep

SpecLoss == InitLoss /\ [][NextLoss]_vars

-----------------------------------------------------------------------------
(* compute_loss on every column of labels *)

\* every column of 1 to MaxBatch labels of a variable
Columns(v) == UNION {[1..n -> LabelsOf(v)] : n \in 1..MaxBatch}

InitComputeLoss ==
    /\ \E tv \in TargetChoices, more \in BOOLEAN :
            self = Constructed(MixedAnn, tv, more, TRUE)
    /\ \E var \in Range(self.variables) : \E y \in Columns(var) :
            batch = [var |-> var, y |-> y, x |-> [i \in 1..Len(y) |-> i]]
    /\ op = "__init__"
    /\ args = <<>>
    /\ result = <<>>

\* compute_loss(var, y, y_hat) on the outputs of the head of var
ComputeLoss ==
    \E ce \in LossValues :
        /\ op' = "compute_loss"
        /\ args' = [ce |-> ce]
        /\ result' = compute_loss(self, batch.var, batch.y,
                                  forward(self, batch.x)[batch.var], ce)
        /\ UNCHANGED <<self, batch>>

SpecComputeLoss == InitComputeLoss /\ [][ComputeLoss]_vars

-----------------------------------------------------------------------------
(* Claims about the losses *)

\* C1: for a variable of either type and a batch in which no sample has a
\* valid label, compute_loss returns exactly zero and does not raise.
C1_ZeroWhenNoValidLabel ==
    (op = "compute_loss" /\ \A i \in 1..Len(batch.y) : ~Present(batch.var, batch.y[i]))
        => result = Returned(Zero)

C1_Witness ==
    /\ op = "compute_loss"
    /\ variable_types[batch.var] = "categorical"
    /\ Len(batch.y) >= 2
    /\ \A i \in 1..Len(batch.y) : batch.y[i] = MissingCode
    /\ result = Returned(Zero)

\* C2 as stated: the total validation_step reports as val_loss equals the
\* total compute_total_loss returns for the same per-task losses.
C2_ValidationUsesTrainingWeighting ==
    (op = "validation_step" /\ ~result.raised)
        => result.total = compute_total_loss(self, result.losses)

\* C2 as amended: val_loss is the unweighted sum of the per-task losses; it
\* equals the total of compute_total_loss when uncertainty weighting is off,
\* when there is a single task, or when every log-variance is zero.
C2_ValidationUnweighted ==
    (op = "validation_step" /\ ~result.raised) =>
        /\ result.total = DictSum(result.losses)
        /\ ( \/ ~self.use_loss_weighting
             \/ Cardinality(DOMAIN result.losses) <= 1
             \/ \A v \in DOMAIN self.log_vars : self.log_vars[v] = 0 )
            => result.total = compute_total_loss(self, result.losses)

C2_Witness ==
    /\ op = "validation_step"
    /\ ~result.raised
    /\ self.use_loss_weighting
    /\ Cardinality(DOMAIN result.losses) >= 2
    /\ \E v \in DOMAIN self.log_vars : self.log_vars[v] # 0
    /\ result.total # compute_total_loss(self, result.losses)

\* C3: with one task the total of compute_total_loss is that task's loss,
\* whatever its log-variance and whether weighting is enabled or not; with
\* weighting disabled the total is the sum of the task losses.
C3_SingleTaskOrUnweighted ==
    (op = "training_step" /\ ~result.raised) =>
        /\ \A v \in DOMAIN result.losses :
              DOMAIN result.losses = {v} => result.total = result.losses[v]
        /\ ~self.use_loss_weighting => result.total = DictSum(result.losses)

C3_Witness ==
    /\ op = "training_step"
    /\ ~result.raised
    /\ self.use_loss_weighting
    /\ DOMAIN result.losses = {"num"}
    /\ self.log_vars["num"] # 0
    /\ result.total # Zero

-----------------------------------------------------------------------------
(* The evaluation of the held-out dataset in main, __main__.py lines 76-97 *)

\* the metrics flexynesis.evaluate_regressor returns
RegressorMetrics == <<"mse", "r2", "pearson_corr">>

\* the metrics flexynesis.evaluate_classifier returns
ClassifierMetrics == <<"balanced_acc", "f1_score", "kappa">>

\* evaluate_regressor(y_true, y_pred): a value per metric, a function of the
\* samples it is given
evaluate_regressor(y_true, y_pred) ==
    [i \in 1..Len(RegressorMetrics) |->
        [metric |-> RegressorMetrics[i], value |-> <<y_true, y_pred>>]]

\* evaluate_classifier(y_true, y_pred)
evaluate_classifier(y_true, y_pred) ==
    [i \in 1..Len(ClassifierMetrics) |->
        [metric |-> ClassifierMetrics[i], value |-> <<y_true, y_pred>>]]

\* the keys of a dict filled in the order of a list: first occurrences
RECURSIVE Keys(_)
Keys(s) ==
    IF s = <<>> THEN <<>>
    ELSE LET front == Keys(SubSeq(s, 1, Len(s) - 1))
         IN  IF s[Len(s)] \in Range(front) THEN front ELSE Append(front, s[Len(s)])

\* ind of line 85: ~torch.isnan(test_dataset.ann[var])
ind(test_dataset, var) == [i \in 1..Len(test_dataset.ann[var]) |-> ~isnan(test_dataset.ann[var][i])]

\* the labels and predictions line 87 or 89 hands to the evaluation of var
Evaluated(test_dataset, y_pred_dict, var) ==
    [y_true |-> MaskSelect(test_dataset.ann[var], ind(test_dataset, var)),
     y_pred |-> MaskSelect(y_pred_dict[var], ind(test_dataset, var))]

\* lines 86-89
MetricsOf(test_dataset, y_pred_dict, var) ==
    LET e == Evaluated(test_dataset, y_pred_dict, var)
    IN  IF variable_types[var] = "numerical"
        THEN evaluate_regressor(e.y_true, e.y_pred)
        ELSE evaluate_classifier(e.y_true, e.y_pred)

\* lines 91-97: the rows one variable adds to metrics_list
RowsOf(test_dataset, y_pred_dict, var) ==
    LET metrics == MetricsOf(test_dataset, y_pred_dict, var)
    IN  [i \in 1..Len(metrics) |->
            [var |-> var, variable_type |-> variable_types[var],
             metric |-> metrics[i].metric, value |-> metrics[i].value]]

\* the loop of lines 84-97 over the keys of y_pred_dict, in order
RECURSIVE MetricsList(_, _, _)
MetricsList(test_dataset, y_pred_dict, keys) ==
    IF keys = <<>> THEN <<>>
    ELSE RowsOf(test_dataset, y_pred_dict, Head(keys))
            \o MetricsList(test_dataset, y_pred_dict, Tail(keys))

\* the columns a held-out annotation can hold for a variable
TestColumns(v) ==
    {FullColumn(v, MaxSamples), PartialColumn(v, MaxSamples),
     NaNFirstColumn(v, MaxSamples), MissingColumn(v, MaxSamples)}

\* the held-out datasets of MaxSamples samples for a model
TestDatasets(me) ==
    {[samples |-> [i \in 1..MaxSamples |-> i],
      x       |-> [i \in 1..MaxSamples |-> i],
      ann     |-> ann] :
        ann \in [Range(me.variables) -> UNION {TestColumns(v) : v \in VarNames}] }

InitMain ==
    /\ \E tv \in TargetChoices, more \in BOOLEAN :
            self = Constructed(MixedAnn, tv, more, TRUE)
    /\ batch \in {d \in TestDatasets(self) :
                    \A v \in DOMAIN d.ann : d.ann[v] \in TestColumns(v)}
    /\ op = "__init__"
    /\ args = <<>>
    /\ result = <<>>

\* main from the prediction on the held-out dataset to metrics_list
Main ==
    LET y_pred_dict == predict(self, batch)
        keys == Keys(self.variables)
    IN  /\ self' = [self EXCEPT !.training = EvalMode(self)]
        /\ op' = "main"
        /\ args' = y_pred_dict
        /\ result' = [evaluated |-> [v \in Range(keys) |-> Evaluated(batch, y_pred_dict, v)],
                      metrics_list |-> MetricsList(batch, y_pred_dict, keys)]
        /\ UNCHANGED batch

NextMain == OptimizerStep \/ Main

SpecMain == InitMain /\ [][NextMain]_vars

\* C10: in main every predicted variable is evaluated on the samples whose
\* label is present only (not NaN for a numerical variable, not the missing
\* code for a categorical one), and adds one row per metric to the table.
C10_OnlyLabelledSamplesEvaluated ==
    op = "main" =>
        /\ \A v \in DOMAIN result.evaluated :
              \A i \in 1..Len(result.evaluated[v].y_true) :
                  Present(v, result.evaluated[v].y_true[i])
        /\ \A v \in DOMAIN args :
              Cardinality({i \in 1..Len(result.metrics_list) :
                              result.metrics_list[i].var = v}) =
                 Len(IF variable_types[v] = "numerical" THEN RegressorMetrics
                     ELSE ClassifierMetrics)

====
